---- MODULE Spec2Model ----
(***************************************************************************)
(* Session/Request Bridge of the JWT Backend API demo (src/app.py).        *)
(*                                                                         *)
(* Task Ledger of the Kitchen Management System (src/scripts/              *)
(* task_tracker.py), further down.                                         *)
(*                                                                         *)
(* One step of the bridge is one Streamlit script run in which the user    *)
(* triggered one widget (a button or a form submit).  The session state    *)
(* (st.session_state) survives between runs; everything else is local to   *)
(* the run and is recorded in `last` so that properties can speak about    *)
(* the requests dispatched, the response obtained and what was displayed.  *)
(***************************************************************************)
EXTENDS Integers, Sequences, FiniteSets, TLC

VARIABLES access_token, refresh_token, user_data, last,
          tasks, tasks_file, tracker_last

\* the variables of the Task Ledger: the tracker's document (self.tasks),
\* the file task_progress.json, and what the last menu option did
tracker_vars == <<tasks, tasks_file, tracker_last>>

vars == <<access_token, refresh_token, user_data, last, tasks, tasks_file, tracker_last>>

----------------------------------------------------------------------------
(* Python values *)

\* Python None in a place that otherwise holds a string
None == "<None>"

\* Python None in a place that otherwise holds a dict (st.session_state.user_data)
NoDict == [none |-> TRUE]

\* the empty dict {}
EmptyDict == <<>>

\* truthiness of an optional string: None and "" are falsy
Truthy(s) == s # None /\ s # ""

\* truthiness of an optional dict: None and {} are falsy
DictTruthy(d) == d # NoDict /\ DOMAIN d # {}

\* dict.get(key, default)
GetOr(d, key, default) == IF key \in DOMAIN d THEN d[key] ELSE default

\* dict.get(key)
Get(d, key) == GetOr(d, key, None)

\* d[key] = value
DictSet(d, key, value) == [k \in DOMAIN d \cup {key} |-> IF k = key THEN value ELSE d[k]]

----------------------------------------------------------------------------
(* JSON texts: the sample texts the model draws bodies from, and the parser *)

TokensA == "{\"access_token\":\"tokA\",\"refresh_token\":\"refA\"}"
AccessOnly == "{\"access_token\":\"tokB\"}"
ProfileText == "{\"id\":\"u1\",\"name\":\"alice\"}"
ErrorText == "{\"error\":\"denied\"}"
KeyValueText == "{\"key\": \"value\"}"
HtmlText == "<html>Bad Gateway</html>"
BrokenText == "{\"key\": "

JsonError == [ok |-> FALSE, obj |-> EmptyDict]

JsonObject(o) == [ok |-> TRUE, obj |-> o]

\* json.loads / Response.json() on the sample texts: the parsed object, or
\* a JSONDecodeError (ok = FALSE)
JsonLoads(text) ==
    CASE text = "{}" -> JsonObject(EmptyDict)
      [] text = TokensA -> JsonObject([access_token |-> "tokA", refresh_token |-> "refA"])
      [] text = AccessOnly -> JsonObject([access_token |-> "tokB"])
      [] text = ProfileText -> JsonObject([id |-> "u1", name |-> "alice"])
      [] text = ErrorText -> JsonObject([error |-> "denied"])
      [] text = KeyValueText -> JsonObject([key |-> "value"])
      [] OTHER -> JsonError

----------------------------------------------------------------------------
(* Requests and responses *)

API_BASE_URL == "http://localhost:3000"

\* the `json=` argument of a request
NoData == [kind |-> "none"]
ObjectData(o) == [kind |-> "object", obj |-> o]
StringData(s) == [kind |-> "string", str |-> s]

\* make_request returned None (requests raised a RequestException)
NoResponse == [failed |-> TRUE]

Response(status, text) == [status_code |-> status, text |-> text]

\* bodies a 200 answer of the token endpoints (login, refresh) is drawn from:
\* both tokens, the access token only, neither
TokenBodies == {TokensA, AccessOnly, "{}"}

\* bodies a 200 answer of the other endpoints is drawn from
ResourceBodies == {ProfileText}

\* what the server may answer: a 200 with one of `bodies` or with a body
\* that is not JSON, a 201, a 204 without body, and the error statuses
Responses(bodies) ==
    {Response(200, t) : t \in bodies \cup {HtmlText}}
    \cup {Response(201, ProfileText), Response(204, "")}
    \cup {Response(s, ErrorText) : s \in {401, 404, 409, 500}}

\* what one network call may result in: an answer, or the transport failure
Outcomes(bodies) == Responses(bodies) \cup {NoResponse}

TokenOutcomes == Outcomes(TokenBodies)

ResourceOutcomes == Outcomes(ResourceBodies)

\* bool(response): None is falsy, and requests.Response.__bool__ is
\* Response.ok, which is False for every 4xx and 5xx status
ResponseTruthy(response) == response # NoResponse /\ response.status_code < 400

\* a message shown to the user
Msg(kind, text) == [kind |-> kind, text |-> text]

\* Headers with the check of the token's presence left out
Headers_without_token_check(auth_required) ==
    IF auth_required
    THEN [ContentType |-> "application/json", Authorization |-> "Bearer " \o access_token]
    ELSE [ContentType |-> "application/json"]

Headers(auth_required) ==
    IF auth_required /\ Truthy(access_token)
    THEN [ContentType |-> "application/json", Authorization |-> "Bearer " \o access_token]
    ELSE [ContentType |-> "application/json"]

\* make_request that swallows the RequestException without reporting it
make_request_silent(method, endpoint, data, auth_required, outcome) ==
    [reqs |-> << [method |-> method,
                  url |-> API_BASE_URL \o endpoint,
                  headers |-> Headers(auth_required),
                  json |-> IF method \in {"POST", "PUT"} THEN data ELSE NoData,
                  auth_required |-> auth_required] >>,
     response |-> outcome,
     ui |-> << >>]

\* make_request that sends the request a second time when the first attempt
\* failed at transport level
make_request_retry(method, endpoint, data, auth_required, outcome) ==
    LET req == [method |-> method,
                url |-> API_BASE_URL \o endpoint,
                headers |-> Headers(auth_required),
                json |-> IF method \in {"POST", "PUT"} THEN data ELSE NoData,
                auth_required |-> auth_required]
    IN
    [reqs |-> IF outcome = NoResponse THEN << req, req >> ELSE << req >>,
     response |-> outcome,
     ui |-> IF outcome = NoResponse THEN << Msg("error", "Request failed") >> ELSE << >>]

\* one call: the request dispatched (with the auth_required argument it was
\* built for) and what came back; `outcome` is the server's answer or the
\* transport failure, which is reported here and returned as None
make_request(method, endpoint, data, auth_required, outcome) ==
    [reqs |-> << [method |-> method,
                  url |-> API_BASE_URL \o endpoint,
                  headers |-> Headers(auth_required),
                  json |-> IF method \in {"POST", "PUT"} THEN data ELSE NoData,
                  auth_required |-> auth_required] >>,
     response |-> outcome,
     ui |-> IF outcome = NoResponse THEN << Msg("error", "Request failed") >> ELSE << >>]

----------------------------------------------------------------------------
(* Task Ledger: the document *)

TotalTasks == 24

\* datetime.date.today().isoformat()
Today == "2026-11-03"

\* the task codes of the default structure, in the order of the dict
TaskOrder == << "T1", "T2", "T3", "D1", "D2", "D3", "P1", "P2", "P3", "S1", "S2", "S3", "CF1", "CF2", "CF3", "CF4", "CF5", "TE1", "TE2", "TE3", "TE4", "OI1", "OI2", "OI3" >>

SeedTask(name, priority, days) ==
    [name |-> name, status |-> "pending", priority |-> priority, days |-> days]

SeedTasks ==
    [task_id \in {TaskOrder[i] : i \in DOMAIN TaskOrder} |->
        CASE task_id = "T1" -> SeedTask("Unit tests for core business logic", "high", 4)
      [] task_id = "T2" -> SeedTask("Integration tests for API endpoints", "high", 5)
      [] task_id = "T3" -> SeedTask("End-to-end test scenarios", "medium", 6)
      [] task_id = "D1" -> SeedTask("Inline documentation for APIs", "high", 3)
      [] task_id = "D2" -> SeedTask("Architecture Decision Records", "medium", 4)
      [] task_id = "D3" -> SeedTask("API usage examples and README", "medium", 3)
      [] task_id = "P1" -> SeedTask("gRPC connection pooling", "high", 4)
      [] task_id = "P2" -> SeedTask("Redis caching integration", "high", 5)
      [] task_id = "P3" -> SeedTask("Request batching for bulk operations", "medium", 4)
      [] task_id = "S1" -> SeedTask("Request/response validation middleware", "high", 4)
      [] task_id = "S2" -> SeedTask("Rate limiting with Redis", "high", 3)
      [] task_id = "S3" -> SeedTask("Security headers and CORS", "medium", 2)
      [] task_id = "CF1" -> SeedTask("Menu management system", "critical", 9)
      [] task_id = "CF2" -> SeedTask("Inventory tracking system", "critical", 11)
      [] task_id = "CF3" -> SeedTask("Order management workflow", "critical", 14)
      [] task_id = "CF4" -> SeedTask("Staff management with RBAC", "high", 7)
      [] task_id = "CF5" -> SeedTask("Table/reservation system", "high", 9)
      [] task_id = "TE1" -> SeedTask("WebSockets for real-time updates", "high", 6)
      [] task_id = "TE2" -> SeedTask("Mobile app API endpoints", "high", 7)
      [] task_id = "TE3" -> SeedTask("Kitchen display system", "high", 8)
      [] task_id = "TE4" -> SeedTask("Reporting and analytics dashboard", "medium", 9)
      [] task_id = "OI1" -> SeedTask("CI/CD pipeline with GitHub Actions", "high", 4)
      [] task_id = "OI2" -> SeedTask("Feature flags for gradual rollouts", "medium", 5)
      [] task_id = "OI3" -> SeedTask("Monitoring with Prometheus/Grafana", "high", 6)]

\* the default structure of load_tasks
DefaultTasks ==
    [project_info |-> [name |-> "Kitchen Management System Enhancement",
                       start_date |-> Today,
                       total_tasks |-> TotalTasks,
                       completed |-> 0,
                       in_progress |-> 0],
     tasks |-> SeedTasks]

\* task_progress.json does not exist
NoFile == [exists |-> FALSE, text |-> << >>]

\* task_progress.json holds `text`
File(text) == [exists |-> TRUE, text |-> text]

\* no menu option has run yet
TrackerStarted == [op |-> "start", args |-> [none |-> TRUE], out |-> << >>, listed |-> << >>, wrote |-> FALSE]

\* the tracker right after KitchenTaskTracker() of a first run
TrackerInit ==
    /\ tasks = DefaultTasks
    /\ tasks_file = NoFile
    /\ tracker_last = TrackerStarted

----------------------------------------------------------------------------
(* A script run: the session fields it leaves and what it did *)

Session == [access_token |-> access_token, refresh_token |-> refresh_token, user_data |-> user_data]

\* a run that made the call `mr`, left the session as `s` and displayed `ui`
\* after the call
Ran(mr, s, ui) ==
    [session |-> s, reqs |-> mr.reqs, response |-> mr.response, ui |-> mr.ui \o ui, raised |-> "none"]

\* a run that an uncaught exception ended after the call `mr`
Raised(mr, s, ui, exception) ==
    [session |-> s, reqs |-> mr.reqs, response |-> mr.response, ui |-> mr.ui \o ui, raised |-> exception]

\* a run that made no call
NoCall == [reqs |-> << >>, response |-> NoResponse, ui |-> << >>]

\* the step of the session for the run `r` of the handler `name` with input `input`
Step(name, input, r) ==
    /\ access_token' = r.session.access_token
    /\ refresh_token' = r.session.refresh_token
    /\ user_data' = r.session.user_data
    /\ last' = [action |-> name, input |-> input, reqs |-> r.reqs,
                response |-> r.response, ui |-> r.ui, raised |-> r.raised]
    /\ UNCHANGED tracker_vars

NoInput == [none |-> TRUE]

Init ==
    /\ access_token = None
    /\ refresh_token = None
    /\ user_data = NoDict
    /\ last = [action |-> "start", input |-> NoInput, reqs |-> << >>,
               response |-> NoResponse, ui |-> << >>, raised |-> "none"]
    /\ TrackerInit

----------------------------------------------------------------------------
(* check_health *)

health_check(endpoint, ok_text, fail_text, outcome) ==
    LET mr == make_request("GET", endpoint, NoData, FALSE, outcome) IN
    IF ResponseTruthy(mr.response) /\ mr.response.status_code = 200
    THEN IF JsonLoads(mr.response.text).ok
         THEN Ran(mr, Session, << Msg("success", ok_text), Msg("json", mr.response.text) >>)
         ELSE Raised(mr, Session, << Msg("success", ok_text) >>, "JSONDecodeError")
    ELSE Ran(mr, Session, << Msg("error", fail_text) >>)

CheckLive ==
    \E outcome \in ResourceOutcomes :
        Step("check_live", NoInput,
             health_check("/health/live", "API is live!", "API is not responding", outcome))

CheckReady ==
    \E outcome \in ResourceOutcomes :
        Step("check_ready", NoInput,
             health_check("/health/ready", "API is ready!", "API is not ready", outcome))

----------------------------------------------------------------------------
(* authentication_section *)

\* logout that forgets the cached profile
logout_keeps_profile == [access_token |-> None, refresh_token |-> None, user_data |-> user_data]

logout == [access_token |-> None, refresh_token |-> None, user_data |-> NoDict]

Logout ==
    /\ Truthy(access_token)
    /\ Step("logout", NoInput, Ran(NoCall, logout, << >>))

RegisterForm == [email |-> "a@b.c", password |-> "pw", name |-> "alice"]

register(outcome) ==
    LET mr == make_request("POST", "/api/v1/auth/register", ObjectData(RegisterForm), FALSE, outcome) IN
    IF ResponseTruthy(mr.response)
    THEN IF mr.response.status_code = 201
         THEN IF JsonLoads(mr.response.text).ok
              THEN Ran(mr, Session, << Msg("success", "Registration successful!"),
                                       Msg("json", mr.response.text) >>)
              ELSE Raised(mr, Session, << Msg("success", "Registration successful!") >>,
                          "JSONDecodeError")
         ELSE Ran(mr, Session, << Msg("error", "Registration failed: " \o mr.response.text) >>)
    ELSE Ran(mr, Session, << >>)

Register ==
    \E outcome \in ResourceOutcomes : Step("register", NoInput, register(outcome))

LoginForm == [email |-> "a@b.c", password |-> "pw"]

\* the session after a 200 login whose body parsed to `result`
login_session(result) ==
    [Session EXCEPT !.access_token = Get(result, "access_token"),
                    !.refresh_token = Get(result, "refresh_token")]

login(outcome) ==
    LET mr == make_request("POST", "/api/v1/auth/login", ObjectData(LoginForm), FALSE, outcome)
        result == JsonLoads(mr.response.text)
    IN
    IF ResponseTruthy(mr.response)
    THEN IF mr.response.status_code = 200
         THEN IF result.ok
              THEN Ran(mr, login_session(result.obj), << Msg("success", "Login successful!") >>)
              ELSE Raised(mr, Session, << >>, "JSONDecodeError")
         ELSE Ran(mr, Session, << Msg("error", "Login failed: " \o mr.response.text) >>)
    ELSE Ran(mr, Session, << >>)

Login ==
    \E outcome \in TokenOutcomes : Step("login", NoInput, login(outcome))

\* refresh that stores both tokens of the body, as login does
refresh_session_like_login(result) ==
    [Session EXCEPT !.access_token = Get(result, "access_token"),
                    !.refresh_token = Get(result, "refresh_token")]

\* refresh that caches the body as the user profile
refresh_session_caches_body(result) ==
    [Session EXCEPT !.access_token = Get(result, "access_token"),
                    !.user_data = result]

\* the session after a 200 refresh whose body parsed to `result`
refresh_session(result) ==
    [Session EXCEPT !.access_token = Get(result, "access_token")]

refresh(outcome) ==
    LET mr == make_request("POST", "/api/v1/auth/refresh",
                           ObjectData([refresh_token |-> refresh_token]), FALSE, outcome)
        result == JsonLoads(mr.response.text)
    IN
    IF ResponseTruthy(mr.response)
    THEN IF mr.response.status_code = 200
         THEN IF result.ok
              THEN Ran(mr, refresh_session(result.obj), << Msg("success", "Token refreshed!") >>)
              ELSE Raised(mr, Session, << >>, "JSONDecodeError")
         ELSE Ran(mr, Session, << Msg("error", "Token refresh failed: " \o mr.response.text) >>)
    ELSE Ran(mr, Session, << >>)

RefreshToken ==
    /\ Truthy(refresh_token)
    /\ \E outcome \in TokenOutcomes : Step("refresh", NoInput, refresh(outcome))

----------------------------------------------------------------------------
(* user_management_section: the section returns before rendering any widget *)
(* unless an access token is present                                       *)

\* what the user may type into an identifier field
TextInputs == {"", "id1"}

\* what the user may type into the "New Name" field
NewNames == {"carol"}

\* a handler that, on the status `ok_status`, shows `ok_text` and the parsed
\* body, and otherwise shows `fail_text` with the body; it leaves the session
\* alone
show_json(mr, ok_status, ok_text, fail_text) ==
    IF ResponseTruthy(mr.response)
    THEN IF mr.response.status_code = ok_status
         THEN IF JsonLoads(mr.response.text).ok
              THEN Ran(mr, Session, << Msg("success", ok_text), Msg("json", mr.response.text) >>)
              ELSE Raised(mr, Session, << Msg("success", ok_text) >>, "JSONDecodeError")
         ELSE Ran(mr, Session, << Msg("error", fail_text \o mr.response.text) >>)
    ELSE Ran(mr, Session, << >>)

\* a handler with a branch of its own for the status `other_status`
show_status(mr, ok_status, ok_text, with_json, other_status, other_text, fail_text) ==
    IF ResponseTruthy(mr.response)
    THEN IF mr.response.status_code = ok_status
         THEN IF with_json
              THEN IF JsonLoads(mr.response.text).ok
                   THEN Ran(mr, Session, << Msg("success", ok_text), Msg("json", mr.response.text) >>)
                   ELSE Raised(mr, Session, << Msg("success", ok_text) >>, "JSONDecodeError")
              ELSE Ran(mr, Session, << Msg("success", ok_text) >>)
         ELSE IF mr.response.status_code = other_status
              THEN Ran(mr, Session, << Msg("error", other_text) >>)
              ELSE Ran(mr, Session, << Msg("error", fail_text \o mr.response.text) >>)
    ELSE Ran(mr, Session, << >>)

\* the session after a 200 profile fetch whose body parsed to `result`
profile_session(result) == [Session EXCEPT !.user_data = result]

get_my_profile(outcome) ==
    LET mr == make_request("GET", "/api/v1/users/me", NoData, TRUE, outcome)
        result == JsonLoads(mr.response.text)
    IN
    IF ResponseTruthy(mr.response)
    THEN IF mr.response.status_code = 200
         THEN IF result.ok
              THEN Ran(mr, profile_session(result.obj),
                       << Msg("success", "Profile loaded!"), Msg("json", mr.response.text) >>)
              ELSE Raised(mr, Session, << >>, "JSONDecodeError")
         ELSE Ran(mr, Session, << Msg("error", "Failed to load profile: " \o mr.response.text) >>)
    ELSE Ran(mr, Session, << >>)

\* the profile button rendered without the test of the access token
GetMyProfile_unguarded ==
    \E outcome \in ResourceOutcomes : Step("get_my_profile", NoInput, get_my_profile(outcome))

GetMyProfile ==
    /\ Truthy(access_token)
    /\ \E outcome \in ResourceOutcomes : Step("get_my_profile", NoInput, get_my_profile(outcome))

get_my_stats(outcome) ==
    LET mr == make_request("GET", "/api/v1/users/me/stats", NoData, TRUE, outcome) IN
    IF ResponseTruthy(mr.response)
    THEN IF mr.response.status_code = 200
         THEN IF JsonLoads(mr.response.text).ok
              THEN Ran(mr, Session, << Msg("success", "Stats loaded!"), Msg("json", mr.response.text) >>)
              ELSE Raised(mr, Session, << >>, "JSONDecodeError")
         ELSE Ran(mr, Session, << Msg("error", "Failed to load stats: " \o mr.response.text) >>)
    ELSE Ran(mr, Session, << >>)

GetMyStats ==
    /\ Truthy(access_token)
    /\ \E outcome \in ResourceOutcomes : Step("get_my_stats", NoInput, get_my_stats(outcome))

get_user(user_id, outcome) ==
    IF user_id # ""
    THEN show_json(make_request("GET", "/api/v1/users/" \o user_id, NoData, TRUE, outcome),
                   200, "User found!", "User not found: ")
    ELSE Ran(NoCall, Session, << >>)

GetUser ==
    /\ Truthy(access_token)
    /\ \E user_id \in TextInputs, outcome \in ResourceOutcomes :
           Step("get_user", [user_id |-> user_id], get_user(user_id, outcome))

\* the session after a 200 update whose body was shown
updated_session(new_name) ==
    [Session EXCEPT !.user_data = DictSet(user_data, "name", new_name)]

update_user(new_name, outcome) ==
    LET user_id == GetOr(user_data, "id", "")
        mr == make_request("PUT", "/api/v1/users/" \o user_id, StringData(new_name), TRUE, outcome)
    IN
    IF ResponseTruthy(mr.response)
    THEN IF mr.response.status_code = 200
         THEN IF JsonLoads(mr.response.text).ok
              THEN Ran(mr, updated_session(new_name),
                       << Msg("success", "User updated!"), Msg("json", mr.response.text) >>)
              ELSE Raised(mr, Session, << Msg("success", "User updated!") >>, "JSONDecodeError")
         ELSE Ran(mr, Session, << Msg("error", "Update failed: " \o mr.response.text) >>)
    ELSE Ran(mr, Session, << >>)

UpdateUser ==
    /\ Truthy(access_token)
    /\ DictTruthy(user_data)
    /\ \E new_name \in NewNames, outcome \in ResourceOutcomes :
           Step("update_user", [new_name |-> new_name], update_user(new_name, outcome))

\* `confirmed` is what st.button("Confirm Deletion") returns in the run in
\* which st.button("Delete User") returned True
delete_user(user_id_to_delete, confirmed, outcome) ==
    IF user_id_to_delete # ""
    THEN IF confirmed
         THEN show_status(make_request("DELETE", "/api/v1/users/" \o user_id_to_delete,
                                       NoData, TRUE, outcome),
                          204, "User deleted successfully!", FALSE,
                          404, "User not found", "Delete failed: ")
         ELSE Ran(NoCall, Session, << >>)
    ELSE Ran(NoCall, Session, << Msg("error", "Please enter a User ID to delete") >>)

DeleteUser ==
    /\ Truthy(access_token)
    /\ \E user_id \in TextInputs, confirmed \in BOOLEAN, outcome \in ResourceOutcomes :
           Step("delete_user", [user_id |-> user_id, confirmed |-> confirmed],
                delete_user(user_id, confirmed, outcome))

create_user(outcome) ==
    show_json(make_request("POST", "/api/v1/users", ObjectData(RegisterForm), TRUE, outcome),
              201, "User created successfully!", "User creation failed: ")

CreateUser ==
    /\ Truthy(access_token)
    /\ \E outcome \in ResourceOutcomes : Step("create_user", NoInput, create_user(outcome))

----------------------------------------------------------------------------
(* refresh_token_management_section: returns before rendering any widget   *)
(* unless an access token is present                                       *)

\* str(uuid.uuid4())
GeneratedId == "uuid4"

create_refresh_token(token_id, outcome) ==
    LET id == IF token_id = "" THEN GeneratedId ELSE token_id
        data == [id |-> id, user_id |-> "u1", token |-> "refC",
                 expires_at |-> "2030-01-01T00:00:00Z", created_at |-> "2026-01-01T00:00:00Z"]
    IN
    show_status(make_request("POST", "/api/v1/refresh_tokens", ObjectData(data), TRUE, outcome),
                201, "Refresh token created successfully!", TRUE,
                409, "Refresh token with this ID already exists", "Creation failed: ")

CreateRefreshToken ==
    /\ Truthy(access_token)
    /\ \E token_id \in TextInputs, outcome \in ResourceOutcomes :
           Step("create_refresh_token", [token_id |-> token_id],
                create_refresh_token(token_id, outcome))

get_refresh_token(token_id, outcome) ==
    LET mr == make_request("GET", "/api/v1/refresh_tokens/" \o token_id, NoData, TRUE, outcome) IN
    IF token_id # ""
    THEN IF ResponseTruthy(mr.response)
         THEN IF mr.response.status_code = 200
              THEN IF JsonLoads(mr.response.text).ok
                   THEN Ran(mr, Session, << Msg("success", "Refresh token found!"),
                                            Msg("json", mr.response.text) >>)
                   ELSE Raised(mr, Session, << >>, "JSONDecodeError")
              ELSE IF mr.response.status_code = 404
                   THEN Ran(mr, Session, << Msg("error", "Refresh token not found") >>)
                   ELSE Ran(mr, Session,
                            << Msg("error", "Failed to get token: " \o mr.response.text) >>)
         ELSE Ran(mr, Session, << >>)
    ELSE Ran(NoCall, Session, << Msg("error", "Please enter a Token ID") >>)

GetRefreshToken ==
    /\ Truthy(access_token)
    /\ \E token_id \in TextInputs, outcome \in ResourceOutcomes :
           Step("get_refresh_token", [token_id |-> token_id],
                get_refresh_token(token_id, outcome))

update_refresh_token(token_id, new_token_string, outcome) ==
    IF token_id # "" /\ new_token_string # ""
    THEN show_status(make_request("PUT", "/api/v1/refresh_tokens/" \o token_id,
                                  StringData(new_token_string), TRUE, outcome),
                     200, "Refresh token updated successfully!", TRUE,
                     404, "Refresh token not found", "Update failed: ")
    ELSE Ran(NoCall, Session, << Msg("error", "Please enter both Token ID and new token string") >>)

UpdateRefreshToken ==
    /\ Truthy(access_token)
    /\ \E token_id \in TextInputs, new_token_string \in {"", "refC"}, outcome \in ResourceOutcomes :
           Step("update_refresh_token",
                [token_id |-> token_id, new_token_string |-> new_token_string],
                update_refresh_token(token_id, new_token_string, outcome))

delete_refresh_token(token_id, confirm_delete, outcome) ==
    IF token_id # "" /\ confirm_delete
    THEN show_status(make_request("DELETE", "/api/v1/refresh_tokens/" \o token_id,
                                  NoData, TRUE, outcome),
                     204, "Refresh token deleted successfully!", FALSE,
                     404, "Refresh token not found", "Delete failed: ")
    ELSE IF token_id = ""
         THEN Ran(NoCall, Session, << Msg("error", "Please enter a Token ID") >>)
         ELSE Ran(NoCall, Session,
                  << Msg("error", "Please confirm that you understand this action cannot be undone") >>)

DeleteRefreshToken ==
    /\ Truthy(access_token)
    /\ \E token_id \in TextInputs, confirm_delete \in BOOLEAN, outcome \in ResourceOutcomes :
           Step("delete_refresh_token", [token_id |-> token_id, confirm_delete |-> confirm_delete],
                delete_refresh_token(token_id, confirm_delete, outcome))

----------------------------------------------------------------------------
(* api_testing_section *)

Methods == {"GET", "POST", "PUT", "DELETE"}

\* what the user may type into the "Endpoint" field
Endpoints == {"/api/v1/users/me", "/api/v1/auth/refresh"}

\* what the user may type into the "Request Body (JSON)" field
RequestBodies == {"", KeyValueText, BrokenText}

\* the body field is rendered for POST and PUT only; without it request_body is None
FormBody(method, text) == IF method \in {"POST", "PUT"} THEN text ELSE None

\* the display of an obtained response
show_response(mr) ==
    IF ResponseTruthy(mr.response)
    THEN Ran(mr, Session,
             << Msg("write", "Status Code: " \o ToString(mr.response.status_code)),
                Msg("write", "Response Headers:"),
                Msg("json", "headers"),
                Msg("write", "Response Body:"),
                IF JsonLoads(mr.response.text).ok
                THEN Msg("json", mr.response.text)
                ELSE Msg("text", mr.response.text) >>)
    ELSE Ran(mr, Session, << >>)

\* send_request that dispatches before it looks at the body
send_request_unvalidated(method, endpoint, request_body, auth_required, outcome) ==
    IF Truthy(request_body)
    THEN IF JsonLoads(request_body).ok
         THEN show_response(make_request(method, endpoint, ObjectData(JsonLoads(request_body).obj),
                                         auth_required, outcome))
         ELSE Ran(make_request(method, endpoint, NoData, auth_required, outcome), Session,
                  << Msg("error", "Invalid JSON in request body") >>)
    ELSE show_response(make_request(method, endpoint, NoData, auth_required, outcome))

send_request(method, endpoint, request_body, auth_required, outcome) ==
    IF Truthy(request_body)
    THEN IF JsonLoads(request_body).ok
         THEN show_response(make_request(method, endpoint, ObjectData(JsonLoads(request_body).obj),
                                         auth_required, outcome))
         ELSE Ran(NoCall, Session, << Msg("error", "Invalid JSON in request body") >>)
    ELSE show_response(make_request(method, endpoint, NoData, auth_required, outcome))

SendRequest ==
    \E method \in Methods, endpoint \in Endpoints, auth_required \in BOOLEAN :
        \E request_body \in {FormBody(method, text) : text \in RequestBodies} :
            \E outcome \in (IF endpoint = "/api/v1/auth/refresh"
                            THEN TokenOutcomes ELSE ResourceOutcomes) :
                Step("send_request",
                     [method |-> method, endpoint |-> endpoint,
                      request_body |-> request_body, auth_required |-> auth_required],
                     send_request(method, endpoint, request_body, auth_required, outcome))

----------------------------------------------------------------------------
(* The runs in which a section finds its credential absent and renders no  *)
(* widget that could dispatch a request                                    *)

\* user_management_section without an access token: the warning, then return
UserManagementUnauthenticated ==
    /\ ~Truthy(access_token)
    /\ Step("user_management_section", NoInput,
            Ran(NoCall, Session,
                << Msg("warning", "Please login first to access user management features.") >>))

\* refresh_token_management_section without an access token
RefreshTokenManagementUnauthenticated ==
    /\ ~Truthy(access_token)
    /\ Step("refresh_token_management_section", NoInput,
            Ran(NoCall, Session,
                << Msg("warning",
                       "Please login first to access refresh token management features.") >>))

\* the Refresh Token tab without a refresh token: no button is rendered
RefreshTabWithoutToken ==
    /\ ~Truthy(refresh_token)
    /\ Step("refresh_tab", NoInput,
            Ran(NoCall, Session,
                << Msg("info", "No refresh token available. Please login first.") >>))

----------------------------------------------------------------------------
Next ==
    \/ CheckLive
    \/ CheckReady
    \/ Logout
    \/ Register
    \/ Login
    \/ RefreshToken
    \/ GetMyProfile
    \/ GetMyStats
    \/ GetUser
    \/ UpdateUser
    \/ DeleteUser
    \/ CreateUser
    \/ CreateRefreshToken
    \/ GetRefreshToken
    \/ UpdateRefreshToken
    \/ DeleteRefreshToken
    \/ SendRequest
    \/ UserManagementUnauthenticated
    \/ RefreshTokenManagementUnauthenticated
    \/ RefreshTabWithoutToken

Spec == Init /\ [][Next]_vars

----------------------------------------------------------------------------
(* Task Ledger: task_progress.json.  The file is modelled by the sequence  *)
(* of the tokens of its JSON text: braces, member names, strings, numbers  *)
(* (separators and indentation are left out).                              *)

LBrace == [t |-> "{"]
RBrace == [t |-> "}"]
NameToken(k) == [t |-> "name", k |-> k]
StringToken(v) == [t |-> "string", s |-> v]
NumberToken(n) == [t |-> "number", n |-> n]

\* the members whose values are Python ints
IntKeys == {"total_tasks", "completed", "in_progress", "days"}

\* the members whose values are dicts
DictKeys == {"project_info", "tasks"} \cup {TaskOrder[i] : i \in DOMAIN TaskOrder}

\* the members a dict of the document may have, in the order they are written
KeyOrder ==
    << "project_info", "tasks", "name", "start_date", "total_tasks", "completed", "in_progress",
       "status", "priority", "days", "last_updated", "assignee", "notes" >> \o TaskOrder

\* the keys of the dict d, as a sequence
Keys(d) == SelectSeq(KeyOrder, LAMBDA k : k \in DOMAIN d)

RECURSIVE json_dump_members(_, _, _)
RECURSIVE json_dump_value(_, _)

\* the encoding of the value v of the member `key`: a number for an int, a
\* string for a str, an object for a dict
json_dump_value(key, v) ==
    IF key \in IntKeys THEN << NumberToken(v) >>
    ELSE IF key \in DictKeys THEN << LBrace >> \o json_dump_members(v, Keys(v), 1) \o << RBrace >>
    ELSE << StringToken(v) >>

\* the members of the dict d from the i-th of `keys` on
json_dump_members(d, keys, i) ==
    IF i > Len(keys) THEN << >>
    ELSE << NameToken(keys[i]) >> \o json_dump_value(keys[i], d[keys[i]])
             \o json_dump_members(d, keys, i + 1)

\* json.dump(self.tasks, f, indent=2), without the save of the optional fields
json_dump_required_only(doc) ==
    << LBrace >>
    \o << NameToken("project_info") >> \o json_dump_value("project_info", doc.project_info)
    \o << NameToken("tasks"), LBrace >>
    \o json_dump_members([k \in DOMAIN doc.tasks |->
                             [f \in DOMAIN doc.tasks[k] \ {"assignee", "notes", "last_updated"}
                                 |-> doc.tasks[k][f]]],
                         Keys(doc.tasks), 1)
    \o << RBrace, RBrace >>

\* json.dump(self.tasks, f, indent=2)
json_dump(doc) ==
    << LBrace >> \o json_dump_members(doc, Keys(doc), 1) \o << RBrace >>

RECURSIVE json_load_members(_, _, _)
RECURSIVE json_load_value(_, _)

\* the value that starts at the i-th token, and the index after it
json_load_value(text, i) ==
    IF text[i].t = "number" THEN [value |-> text[i].n, next |-> i + 1]
    ELSE IF text[i].t = "string" THEN [value |-> text[i].s, next |-> i + 1]
    ELSE json_load_members(text, i + 1, EmptyDict)

\* the members of an object from the i-th token to its closing brace, added
\* to the dict d
json_load_members(text, i, d) ==
    IF text[i] = RBrace THEN [value |-> d, next |-> i + 1]
    ELSE LET member == json_load_value(text, i + 1) IN
         json_load_members(text, member.next, DictSet(d, text[i].k, member.value))

\* json.load(f)
json_load(text) == json_load_value(text, 1).value

----------------------------------------------------------------------------
(* Task Ledger: KitchenTaskTracker *)

\* the document the constructor starts from: the file's, or the default
load_tasks(file) ==
    IF file.exists THEN json_load(file.text) ELSE DefaultTasks

\* the file after save_tasks
save_tasks(doc) == File(json_dump(doc))

\* the number of tasks of `doc` whose status is `status`
CountStatus(doc, status) ==
    Cardinality({k \in DOMAIN doc.tasks : doc.tasks[k].status = status})

\* update_project_stats that takes every started task for a completed one
update_project_stats_counts_started(doc) ==
    [doc EXCEPT !.project_info.completed =
                    CountStatus(doc, "completed") + CountStatus(doc, "in_progress"),
                !.project_info.in_progress = CountStatus(doc, "in_progress")]

update_project_stats(doc) ==
    [doc EXCEPT !.project_info.completed = CountStatus(doc, "completed"),
                !.project_info.in_progress = CountStatus(doc, "in_progress")]

\* the record of task_id after the assignments of update_task_status
updated_task(task, status, assignee, notes) ==
    LET t1 == DictSet(DictSet(task, "status", status), "last_updated", Today)
        t2 == IF Truthy(assignee) THEN DictSet(t1, "assignee", assignee) ELSE t1
    IN  IF Truthy(notes) THEN DictSet(t2, "notes", notes) ELSE t2

\* update_task_status without the test of the task code: the record of an
\* unknown code is created
update_task_status_upsert(doc, file, task_id, status, assignee, notes) ==
    LET old == IF task_id \in DOMAIN doc.tasks THEN doc.tasks[task_id] ELSE EmptyDict
        new_doc == update_project_stats(
                       [doc EXCEPT !.tasks = DictSet(doc.tasks, task_id,
                                                     updated_task(old, status, assignee, notes))])
    IN  [doc |-> new_doc, file |-> save_tasks(new_doc), wrote |-> TRUE,
         out |-> << "Updated " \o task_id \o ": " \o status >>]

\* update_task_status that recomputes the statistics before it assigns the
\* new status
update_task_status_stats_first(doc, file, task_id, status, assignee, notes) ==
    IF task_id \in DOMAIN doc.tasks
    THEN LET counted == update_project_stats(doc)
             new_doc == [counted EXCEPT !.tasks[task_id] = updated_task(@, status, assignee, notes)]
         IN  [doc |-> new_doc, file |-> save_tasks(new_doc), wrote |-> TRUE,
              out |-> << "Updated " \o task_id \o ": " \o status >>]
    ELSE [doc |-> doc, file |-> file, wrote |-> FALSE,
          out |-> << "Task " \o task_id \o " not found" >>]

\* the document, the file and the output after update_task_status
update_task_status(doc, file, task_id, status, assignee, notes) ==
    IF task_id \in DOMAIN doc.tasks
    THEN LET new_doc == update_project_stats(
                            [doc EXCEPT !.tasks[task_id] = updated_task(@, status, assignee, notes)])
         IN  [doc |-> new_doc, file |-> save_tasks(new_doc), wrote |-> TRUE,
              out |-> << "Updated " \o task_id \o ": " \o status >>]
    ELSE [doc |-> doc, file |-> file, wrote |-> FALSE,
          out |-> << "Task " \o task_id \o " not found" >>]

\* priority_order.get(priority, 4)
PriorityRank(priority) ==
    CASE priority = "critical" -> 0
      [] priority = "high" -> 1
      [] priority = "medium" -> 2
      [] priority = "low" -> 3
      [] OTHER -> 4

\* the sort key of the task `a` is less than that of `b`
KeyLess(doc, a, b) ==
    \/ PriorityRank(doc.tasks[a].priority) < PriorityRank(doc.tasks[b].priority)
    \/ /\ PriorityRank(doc.tasks[a].priority) = PriorityRank(doc.tasks[b].priority)
       /\ doc.tasks[a].days < doc.tasks[b].days

\* the sorted sequence with x put behind the elements whose key is not
\* greater (in a sorted sequence these are the first n)
InsertSorted(doc, sorted, x) ==
    LET n == Cardinality({i \in 1..Len(sorted) : ~KeyLess(doc, x, sorted[i])})
    IN  SubSeq(sorted, 1, n) \o << x >> \o SubSeq(sorted, n + 1, Len(sorted))

RECURSIVE SortedPrefix(_, _, _)

\* list.sort(key=...) of the first n elements of seq: stable, ascending
SortedPrefix(doc, seq, n) ==
    IF n = 0 THEN << >> ELSE InsertSorted(doc, SortedPrefix(doc, seq, n - 1), seq[n])

\* the sort by estimated days alone, the priority forgotten
Sorted_by_days(doc, seq) ==
    LET by_days == [doc EXCEPT !.tasks = [k \in DOMAIN doc.tasks |->
                                             [doc.tasks[k] EXCEPT !.priority = "high"]]]
    IN  SortedPrefix(by_days, seq, Len(seq))

Sorted(doc, seq) == SortedPrefix(doc, seq, Len(seq))

\* seq[:count]
SliceTo(seq, count) ==
    IF count >= 0
    THEN SubSeq(seq, 1, IF count < Len(seq) THEN count ELSE Len(seq))
    ELSE SubSeq(seq, 1, IF Len(seq) + count > 0 THEN Len(seq) + count ELSE 0)

\* the task codes show_next_tasks(count) prints, in the order printed
show_next_tasks(doc, count) ==
    LET pending_tasks == SelectSeq(Keys(doc.tasks), LAMBDA k : doc.tasks[k].status = "pending")
    IN  SliceTo(Sorted(doc, pending_tasks), count)

----------------------------------------------------------------------------
(* Task Ledger: the menu loop of main *)

\* the largest count typed at "How many tasks to show?"
MaxCount == 6

\* the count shown when the answer is not a number
DefaultCount == 5

\* the numbers the user may type as the count; the text of a negative
\* number is not made of digits
CountInputs == -1..MaxCount

\* str.strip, str.upper and str.lower on the texts the user may type
StrStrip(text) == CASE text = "CF1 " -> "CF1" [] OTHER -> text

StrUpper(text) == CASE text = "t1" -> "T1" [] text = "x9" -> "X9" [] OTHER -> text

StrLower(text) == CASE text = "In_Progress" -> "in_progress" [] OTHER -> text

\* x or None
OrNone(text) == IF text = "" THEN None ELSE text

\* what the user may type as the task ID
TaskIdInputs == {"t1", "CF1 ", "x9"}

\* what the user may type as status, assignee and notes
UpdateForms ==
    { [status |-> "completed", assignee |-> "", notes |-> ""],
      [status |-> "In_Progress", assignee |-> "bob", notes |-> ""],
      [status |-> "pending", assignee |-> "", notes |-> "blocked"],
      [status |-> "done", assignee |-> "", notes |-> ""] }

\* option 3
ShowNextTasks ==
    \E typed \in CountInputs :
        LET count == IF typed >= 0 THEN typed ELSE DefaultCount IN
        /\ tracker_last' = [op |-> "show_next_tasks", args |-> [count |-> count], out |-> << >>,
                            listed |-> show_next_tasks(tasks, count), wrote |-> FALSE]
        /\ UNCHANGED <<tasks, tasks_file>>
        /\ UNCHANGED <<access_token, refresh_token, user_data, last>>

\* option 4
UpdateTaskStatus ==
    \E typed_id \in TaskIdInputs, form \in UpdateForms :
        LET task_id == StrUpper(StrStrip(typed_id))
            status == StrLower(StrStrip(form.status))
            assignee == OrNone(StrStrip(form.assignee))
            notes == OrNone(StrStrip(form.notes))
            r == update_task_status(tasks, tasks_file, task_id, status, assignee, notes)
        IN
        /\ tasks' = r.doc
        /\ tasks_file' = r.file
        /\ tracker_last' = [op |-> "update_task_status",
                            args |-> [task_id |-> task_id, status |-> status,
                                      assignee |-> assignee, notes |-> notes],
                            out |-> r.out, listed |-> << >>, wrote |-> r.wrote]
        /\ UNCHANGED <<access_token, refresh_token, user_data, last>>

\* option 6 and the next start of the script: KitchenTaskTracker() loads the
\* document again
Restart ==
    /\ tasks' = load_tasks(tasks_file)
    /\ tracker_last' = [op |-> "load_tasks", args |-> NoInput, out |-> << >>,
                        listed |-> << >>, wrote |-> FALSE]
    /\ UNCHANGED tasks_file
    /\ UNCHANGED <<access_token, refresh_token, user_data, last>>

NextTracker ==
    \/ ShowNextTasks
    \/ UpdateTaskStatus
    \/ Restart

SpecTracker == Init /\ [][NextTracker]_vars

----------------------------------------------------------------------------
(* Properties of the session/request bridge *)

Obtained(l) == l.response # NoResponse

TransportFailure(l) == l.reqs # << >> /\ l.response = NoResponse

RefreshUrl == API_BASE_URL \o "/api/v1/auth/refresh"

\* C1: a login answered with 200 leaves access_token and refresh_token both
\* non-empty; a login answered with any other status leaves access_token,
\* refresh_token and user_data as they were.
C1_LoginSetsBothTokens ==
    [][(last'.action = "login" /\ Obtained(last'))
        => IF last'.response.status_code = 200
           THEN Truthy(access_token') /\ Truthy(refresh_token')
           ELSE UNCHANGED <<access_token, refresh_token, user_data>>]_vars

\* C2: after a logout, whatever logins, refreshes, profile fetches and
\* updates came before it, the session is the initial one: all three fields
\* are empty.
C2_LogoutRestoresInitial ==
    last.action = "logout"
        => access_token = None /\ refresh_token = None /\ user_data = NoDict

\* a logout has just run (it is offered only to a session that logged in)
C2_Witness ==
    /\ last.action = "logout"
    /\ last.reqs = << >>

\* C3: a refresh never changes refresh_token or user_data, and it leaves
\* access_token alone unless the answer has status 200.
C3_RefreshFrame ==
    [][last'.action = "refresh"
        => /\ refresh_token' = refresh_token
           /\ user_data' = user_data
           /\ (~Obtained(last') \/ last'.response.status_code # 200)
                  => access_token' = access_token]_vars

\* a refresh answered with 200 has replaced the access token and kept the
\* refresh token
C3_Witness ==
    /\ last.action = "refresh"
    /\ Obtained(last) /\ last.response.status_code = 200
    /\ last.response.text = AccessOnly
    /\ access_token = "tokB"
    /\ refresh_token = "refA"

\* C4: an Authenticated session (access_token present) becomes
\* Unauthenticated by the logout only; no refresh, whatever its outcome, and
\* no other request outcome demotes it.
C4_OnlyLogoutDemotes ==
    [][(Truthy(access_token) /\ ~Truthy(access_token')) => last'.action = "logout"]_vars

\* C5: when a handler obtains a response whose status is not 2xx, it is not
\* reported as a transport failure, and the handler shows it to the user:
\* its failure message or, in the API testing form, the status line.
C5_NonSuccessIsSurfaced ==
    (Obtained(last) /\ last.response.status_code \notin 200..299)
        => /\ \A i \in DOMAIN last.ui : last.ui[i] # Msg("error", "Request failed")
           /\ \E i \in DOMAIN last.ui : last.ui[i].kind \in {"error", "write"}

\* C6: a request carries "Authorization: Bearer <access_token>" exactly when
\* it was made with auth_required and the session held an access token; the
\* API testing form with auth_required and no token still dispatches its
\* request, without the header; the health checks never carry it.
C6_BearerExactlyWhenRequiredAndPresent ==
    [][/\ \A i \in DOMAIN last'.reqs :
            LET req == last'.reqs[i] IN
            /\ ("Authorization" \in DOMAIN req.headers)
                   <=> (req.auth_required /\ Truthy(access_token))
            /\ "Authorization" \in DOMAIN req.headers
                   => req.headers.Authorization = "Bearer " \o access_token
       /\ (/\ last'.action = "send_request"
           /\ last'.input.auth_required
           /\ ~Truthy(access_token)
           /\ (Truthy(last'.input.request_body) => JsonLoads(last'.input.request_body).ok))
              => /\ Len(last'.reqs) = 1
                 /\ "Authorization" \notin DOMAIN last'.reqs[1].headers
       /\ last'.action = "check_live"
              => /\ Len(last'.reqs) = 1
                 /\ last'.reqs[1].method = "GET"
                 /\ last'.reqs[1].url = "http://localhost:3000/health/live"
                 /\ last'.reqs[1].json = NoData
                 /\ "Authorization" \notin DOMAIN last'.reqs[1].headers]_vars

\* the API testing form has sent a request with auth_required while no
\* access token was held (the form leaves the session alone)
C6_Witness ==
    /\ last.action = "send_request"
    /\ last.input.auth_required
    /\ ~Truthy(access_token)
    /\ Len(last.reqs) = 1
    /\ "Authorization" \notin DOMAIN last.reqs[1].headers

\* C7: when the call of an action fails at transport level, the failure is
\* reported, the run ends normally after that one call, and access_token,
\* refresh_token and user_data are as before.
C7_TransportFailureLeavesSession ==
    [][TransportFailure(last')
        => /\ UNCHANGED <<access_token, refresh_token, user_data>>
           /\ \E i \in DOMAIN last'.ui : last'.ui[i] = Msg("error", "Request failed")
           /\ last'.raised = "none"
           /\ Len(last'.reqs) = 1]_vars

\* the login of an authenticated session with a cached profile has failed at
\* transport level
C7_Witness ==
    /\ last.action = "login"
    /\ TransportFailure(last)
    /\ Truthy(access_token)
    /\ user_data # NoDict

\* C8: no run dispatches more than one request, and a request to
\* /api/v1/auth/refresh is dispatched only by the run the user asked to
\* refresh in (the Refresh Token button, or the API testing form with that
\* endpoint typed in): never in answer to a 401 or any other response.
C8_AtMostOneRequest ==
    /\ Len(last.reqs) <= 1
    /\ \A i \in DOMAIN last.reqs :
           last.reqs[i].url = RefreshUrl
               => \/ last.action = "refresh"
                  \/ last.action = "send_request" /\ last.input.endpoint = "/api/v1/auth/refresh"

\* an authenticated request was answered with 401 and nothing followed it
C8_Witness ==
    /\ last.action = "get_my_profile"
    /\ Obtained(last) /\ last.response.status_code = 401
    /\ Len(last.reqs) = 1
    /\ last.reqs[1].url # RefreshUrl
    /\ Truthy(refresh_token)

\* C9 (as stated): user_data changes only in a profile fetch or a login
\* answered with 200, or in a logout.
C9_OnlyProfileFetchOrLogin ==
    [][user_data' # user_data
        => \/ last'.action = "logout"
           \/ /\ last'.action \in {"get_my_profile", "login"}
              /\ Obtained(last') /\ last'.response.status_code = 200]_vars

\* C9 (amended): user_data changes only in a profile fetch answered with 200
\* (it becomes the parsed body), in a login answered with 200, in an update
\* of the user answered with 200 (its name field becomes the new name), or
\* in a logout (it is cleared).
C9_OnlyProfileFetchLoginOrUpdate ==
    [][user_data' # user_data
        => \/ last'.action = "logout" /\ user_data' = NoDict
           \/ /\ last'.action = "get_my_profile"
              /\ Obtained(last') /\ last'.response.status_code = 200
              /\ user_data' = JsonLoads(last'.response.text).obj
           \/ /\ last'.action = "login"
              /\ Obtained(last') /\ last'.response.status_code = 200
           \/ /\ last'.action = "update_user"
              /\ Obtained(last') /\ last'.response.status_code = 200
              /\ user_data' = DictSet(user_data, "name", last'.input.new_name)]_vars

\* an update of the user answered with 200 has renamed the cached profile
C9_Witness ==
    /\ last.action = "update_user"
    /\ Obtained(last) /\ last.response.status_code = 200
    /\ user_data = [id |-> "u1", name |-> "carol"]

\* C10: when the body typed into the API testing form is not valid JSON,
\* the form reports the validation error, dispatches no request and leaves
\* the session as it was.
C10_InvalidJsonSendsNothing ==
    [][(/\ last'.action = "send_request"
        /\ Truthy(last'.input.request_body)
        /\ ~JsonLoads(last'.input.request_body).ok)
        => /\ last'.reqs = << >>
           /\ last'.ui = << Msg("error", "Invalid JSON in request body") >>
           /\ UNCHANGED <<access_token, refresh_token, user_data>>]_vars

\* the form was submitted with a body that is not JSON, in an authenticated
\* session
C10_Witness ==
    /\ last.action = "send_request"
    /\ last.input.request_body = BrokenText
    /\ last.reqs = << >>
    /\ Truthy(access_token)

----------------------------------------------------------------------------
(* Properties of the Task Ledger *)

Updated(l) == l.op = "update_task_status"

SeedCodes == {TaskOrder[i] : i \in DOMAIN TaskOrder}

\* C11: update_task_status with a task code that is not a key of the tasks
\* reports "not found", leaves the document (every record and project_info)
\* as it was and does not write the file.
C11_UnknownCodeLeavesDocument ==
    [][(Updated(tracker_last') /\ tracker_last'.args.task_id \notin DOMAIN tasks.tasks)
        => /\ tasks' = tasks
           /\ tasks_file' = tasks_file
           /\ ~tracker_last'.wrote
           /\ tracker_last'.out = << "Task " \o tracker_last'.args.task_id \o " not found" >>]_vars

\* an unknown code was given after an earlier update had written the file
C11_Witness ==
    /\ Updated(tracker_last)
    /\ tracker_last.args.task_id = "X9"
    /\ ~tracker_last.wrote
    /\ tasks_file.exists
    /\ tasks.project_info.completed = 1

\* C12 (as stated): after update_task_status(t, "completed") for an existing
\* code t, project_info.completed is 1 greater than before the call and the
\* record's status is "completed".
C12_CompletedGrowsByOne ==
    [][(/\ Updated(tracker_last')
        /\ tracker_last'.args.status = "completed"
        /\ tracker_last'.args.task_id \in DOMAIN tasks.tasks)
        => /\ tasks'.project_info.completed = tasks.project_info.completed + 1
           /\ tasks'.tasks[tracker_last'.args.task_id].status = "completed"]_vars

\* C12 (amended): after update_task_status(t, "completed") for an existing
\* code t the record's status is "completed", and project_info.completed is
\* 1 greater than before the call when the record's status was not
\* "completed" before it, and the same as before when it was.
C12_CompletedGrowsByOneUnlessCompleted ==
    [][(/\ Updated(tracker_last')
        /\ tracker_last'.args.status = "completed"
        /\ tracker_last'.args.task_id \in DOMAIN tasks.tasks)
        => /\ tasks'.tasks[tracker_last'.args.task_id].status = "completed"
           /\ tasks'.project_info.completed =
                  IF tasks.tasks[tracker_last'.args.task_id].status = "completed"
                  THEN tasks.project_info.completed
                  ELSE tasks.project_info.completed + 1]_vars

\* T1 was completed after CF1 had been
C12_Witness ==
    /\ Updated(tracker_last)
    /\ tracker_last.args.task_id = "T1"
    /\ tracker_last.args.status = "completed"
    /\ tasks.tasks["T1"].status = "completed"
    /\ tasks.project_info.completed = 2

\* the priority rank of the listing: critical, high, medium, low
ListingRank(priority) ==
    CASE priority = "critical" -> 0
      [] priority = "high" -> 1
      [] priority = "medium" -> 2
      [] priority = "low" -> 3

\* the task a comes before the task b in the listing's order
RanksBefore(a, b) ==
    \/ ListingRank(tasks.tasks[a].priority) < ListingRank(tasks.tasks[b].priority)
    \/ /\ tasks.tasks[a].priority = tasks.tasks[b].priority
       /\ tasks.tasks[a].days < tasks.tasks[b].days

\* C13: show_next_tasks(n) lists at most n records, all of them pending, in
\* the order of priority rank and, within a priority, of ascending estimated
\* days, and no pending record left out ranks before a listed one.
C13_NextTasksListing ==
    tracker_last.op = "show_next_tasks"
        => LET listed == tracker_last.listed
               unlisted == {k \in DOMAIN tasks.tasks :
                               /\ tasks.tasks[k].status = "pending"
                               /\ \A i \in DOMAIN listed : listed[i] # k}
           IN  /\ Len(listed) <= tracker_last.args.count
               /\ \A i \in DOMAIN listed : tasks.tasks[listed[i]].status = "pending"
               /\ \A i, j \in DOMAIN listed : i < j => ~RanksBefore(listed[j], listed[i])
               /\ \A k \in unlisted : \A i \in DOMAIN listed : ~RanksBefore(k, listed[i])

\* five tasks were listed while CF1 was completed and T1 in progress, so
\* that the listing starts at CF2 and pending tasks are left out
C13_Witness ==
    /\ tracker_last.op = "show_next_tasks"
    /\ tracker_last.args.count = 5
    /\ tasks.tasks["CF1"].status = "completed"
    /\ tasks.tasks["T1"].status = "in_progress"
    /\ tracker_last.listed = << "CF2", "CF3", "D1", "S2", "P1" >>

\* C14: for every document reached by update_task_status calls from the
\* seed, load_tasks after save_tasks yields the saved document: the same
\* task codes with the same fields and values, and the same project_info.
C14_SaveLoadRoundTrip ==
    /\ load_tasks(save_tasks(tasks)) = tasks
    /\ (Updated(tracker_last) /\ tracker_last.wrote) => load_tasks(tasks_file) = tasks

\* the document was loaded from a file saved after T1 got an assignee and
\* a note
C14_Witness ==
    /\ tracker_last.op = "load_tasks"
    /\ tasks_file.exists
    /\ "assignee" \in DOMAIN tasks.tasks["T1"]
    /\ "notes" \in DOMAIN tasks.tasks["T1"]
    /\ tasks.tasks["T1"].last_updated = Today

\* C15: every task record's status is pending, in_progress or completed.
C15_StatusIsOneOfThree ==
    \A k \in DOMAIN tasks.tasks : tasks.tasks[k].status \in {"pending", "in_progress", "completed"}

\* C16: project_info.completed is the number of records whose status is
\* "completed", project_info.in_progress the number whose status is
\* "in_progress", total_tasks stays 24 and the task codes are the seed's.
C16_StatsMatchRecords ==
    /\ tasks.project_info.completed =
           Cardinality({k \in DOMAIN tasks.tasks : tasks.tasks[k].status = "completed"})
    /\ tasks.project_info.in_progress =
           Cardinality({k \in DOMAIN tasks.tasks : tasks.tasks[k].status = "in_progress"})
    /\ tasks.project_info.total_tasks = 24
    /\ DOMAIN tasks.tasks = SeedCodes
    /\ Cardinality(SeedCodes) = 24

\* one task is completed and another in progress
C16_Witness ==
    /\ Updated(tracker_last)
    /\ tasks.tasks["T1"].status = "in_progress"
    /\ tasks.tasks["CF1"].status = "completed"
    /\ tasks.project_info.completed = 1
    /\ tasks.project_info.in_progress = 1

----------------------------------------------------------------------------
(* The bridge with a server whose 200 answers to login and refresh carry a *)
(* non-empty access_token                                                  *)

LoginUrl == API_BASE_URL \o "/api/v1/auth/login"

\* the answer obtained in the run `l`, when it is a 200 to a login or a
\* refresh request, carries a non-empty access_token
CarriesAccessToken(l) ==
    (/\ l.reqs # << >>
     /\ l.reqs[1].url \in {LoginUrl, RefreshUrl}
     /\ Obtained(l)
     /\ l.response.status_code = 200)
        => /\ JsonLoads(l.response.text).ok
           /\ Truthy(Get(JsonLoads(l.response.text).obj, "access_token"))

\* the steps of the bridge with such a server: Login, RefreshToken and
\* SendRequest are the actions that can reach the two endpoints
NextProvided ==
    \/ CheckLive
    \/ CheckReady
    \/ Logout
    \/ Register
    \/ Login /\ CarriesAccessToken(last')
    \/ RefreshToken /\ CarriesAccessToken(last')
    \/ GetMyProfile
    \/ GetMyStats
    \/ GetUser
    \/ UpdateUser
    \/ DeleteUser
    \/ CreateUser
    \/ CreateRefreshToken
    \/ GetRefreshToken
    \/ UpdateRefreshToken
    \/ DeleteRefreshToken
    \/ SendRequest /\ CarriesAccessToken(last')
    \/ UserManagementUnauthenticated
    \/ RefreshTokenManagementUnauthenticated
    \/ RefreshTabWithoutToken

SpecProvided == Init /\ [][NextProvided]_vars

\* C17: with such a server, a non-empty user_data implies a non-empty
\* access_token, and access_token is non-empty exactly when refresh_token is.
C17_TokensGoTogether ==
    /\ DictTruthy(user_data) => Truthy(access_token)
    /\ Truthy(access_token) <=> Truthy(refresh_token)

UserManagementActions ==
    {"user_management_section", "get_my_profile", "get_my_stats", "get_user", "update_user",
     "delete_user", "create_user"}

RefreshTokenManagementActions ==
    {"refresh_token_management_section", "create_refresh_token", "get_refresh_token",
     "update_refresh_token", "delete_refresh_token"}

\* C18: a run of the user management or of the refresh token management
\* section dispatches no request while access_token is empty, a run of the
\* Refresh Token tab dispatches none while refresh_token is empty, and the
\* logout dispatches none.
C18_NoRequestWithoutCredential ==
    [][/\ (/\ last'.action \in UserManagementActions \cup RefreshTokenManagementActions
           /\ ~Truthy(access_token))
              => last'.reqs = << >>
       /\ (last'.action \in {"refresh", "refresh_tab"} /\ ~Truthy(refresh_token))
              => last'.reqs = << >>
       /\ last'.action = "logout" => last'.reqs = << >>]_vars

\* the user management section ran without an access token: it warned and
\* dispatched nothing
C18_Witness ==
    /\ last.action = "user_management_section"
    /\ ~Truthy(access_token)
    /\ last.reqs = << >>
    /\ last.ui = << Msg("warning", "Please login first to access user management features.") >>

====
